---- MODULE Spec2Model ----
(***************************************************************************)
(* A model of blockchain.go: the Blockchain value (Chain and the mempool   *)
(* Transactions), the operations createBlockchain, addTransaction,         *)
(* proofOfWork (one step per evaluation of its loop condition) and         *)
(* addBlock, and the pure functions calculateHash, generateTransactionID   *)
(* and isProofValid.                                                       *)
(*                                                                         *)
(* Strings are sequences of one-character strings, so fmt.Sprintf and the  *)
(* string concatenations of the source are computed character by           *)
(* character.  crypto/sha256 is a library, not code of this repository: it *)
(* is abstracted by a small deterministic digest of DigestSize bytes in    *)
(* which one preimage in four meets the "0000" target (instead of one in   *)
(* 65536), so that the search loop ends within the bounds of the model.    *)
(***************************************************************************)
EXTENDS Integers, Sequences, FiniteSets, TLC

(***************************************************************************)
(* Bounds of the model.                                                    *)
(***************************************************************************)
\* the longest chain explored (genesis block included)
MaxChain == 3
\* the number of addTransaction calls explored
MaxTxs == 2
\* the largest nonce the search loop and the callers of addBlock reach
MaxNonce == 2

(***************************************************************************)
(* Program constants.                                                      *)
(***************************************************************************)
\* Nonce of the genesis block
GenesisNonce == 100
\* number of leading characters of the hash compared by isProofValid
DifficultyLen == 4
\* digits after the decimal point printed by the verb %f
FloatPrecision == 6
\* an Amount a stands for the float64 a / AmountUnit: one digit more than %f prints
AmountUnit == 10000000
\* bytes of a digest (sha256.Size is 32; the abstraction keeps 3)
DigestSize == 3
\* number of values the abstract digest mixes its input into
DigestSpace == 64
\* multiplier of the abstract digest's mixing step
DigestMul == 5

\* PreviousHash of the genesis block
GenesisPreviousHash == <<"0">>
\* the mining difficulty target
DifficultyTarget == <<"0", "0", "0", "0">>

Alice == <<"A", "l", "i", "c", "e">>
Bob == <<"B", "o", "b">>
Charlie == <<"C", "h", "a", "r", "l", "i", "e">>

\* values time.Now().Unix() returns in proofOfWork (of different printed widths)
Timestamps == {7, 10}
\* values time.Now().Unix() returns in createGenesisBlock
GenesisTimestamps == {7}

\* arguments of the addTransaction calls explored: those of main's two calls
TxArgs ==
  { <<Alice, Bob, 50 * AmountUnit>>,
    <<Bob, Charlie, 25 * AmountUnit>> }

VARIABLES
  Chain,               \* bc.Chain
  Transactions,        \* bc.Transactions, the mempool
  pc,                  \* position of the caller: "idle", "searching" (inside
                       \* proofOfWork's loop), "returned" (proofOfWork returned)
  lastBlock,           \* proofOfWork's local lastBlock
  candidateTimestamp,  \* proofOfWork's local candidateTimestamp
  nonce,               \* proofOfWork's local nonce (its result once returned)
  powTxs,              \* the transactions argument of the latest isProofValid call
  powSnapshot,         \* history: the mempool when proofOfWork was entered
  powReads,            \* history: the transactions arguments of all the
                       \* isProofValid calls of this proofOfWork call
  evaluations,         \* history: the number of isProofValid calls of this
                       \* proofOfWork call
  results,             \* history: <<lastBlock, mempool on entry, timestamp,
                       \* nonce>> of the earlier proofOfWork calls on this tip
                       \* that returned (kept by SpecSearch only)
  commitOf,            \* history: what the latest addBlock call committed:
                       \* "fresh" (the pair proofOfWork returned and the tip's
                       \* hash, the mempool as the search read it), "stale"
                       \* (the same, the mempool changed since), "other"
                       \* (other arguments), "none" after any other call
  txid,                \* the value returned by the latest addTransaction call
  op,                  \* history: the operation that produced this state
  submitted,           \* history: the arguments of all addTransaction calls, in order
  returnedIds,         \* history: <<arguments, returned id>> of all addTransaction calls
  mainPc               \* history: the line main() has reached, "off" once the
                       \* calls made differ from main's

vars ==
  << Chain, Transactions, pc, lastBlock, candidateTimestamp, nonce, powTxs,
     powSnapshot, powReads, evaluations, results, commitOf, txid, op, submitted,
     returnedIds, mainPc >>

(***************************************************************************)
(* Formatting: fmt.Sprintf's verbs %d and %f, and hex.EncodeToString.      *)
(***************************************************************************)
Digits == <<"0", "1", "2", "3", "4", "5", "6", "7", "8", "9">>

HexDigits ==
  <<"0", "1", "2", "3", "4", "5", "6", "7", "8", "9", "a", "b", "c", "d", "e", "f">>

RECURSIVE FmtNat(_)
FmtNat(n) ==
  IF n < 10 THEN <<Digits[n + 1]>>
  ELSE FmtNat(n \div 10) \o <<Digits[(n % 10) + 1]>>

\* the verb %d
FmtD(n) == IF n < 0 THEN <<"-">> \o FmtNat(-n) ELSE FmtNat(n)

RECURSIVE Pow10(_)
Pow10(k) == IF k = 0 THEN 1 ELSE 10 * Pow10(k - 1)

RECURSIVE FmtPadded(_, _)
\* n in exactly width digits, zero-padded on the left
FmtPadded(n, width) ==
  IF width = 0 THEN <<>>
  ELSE FmtPadded(n \div 10, width - 1) \o <<Digits[(n % 10) + 1]>>

\* the verb %f: FloatPrecision digits after the point, the value rounded to the
\* nearest (amounts are non-negative)
FmtF(a) ==
  LET unit == AmountUnit \div Pow10(FloatPrecision)
      r == (a + (unit \div 2)) \div unit
  IN FmtNat(r \div Pow10(FloatPrecision)) \o <<".">>
       \o FmtPadded(r % Pow10(FloatPrecision), FloatPrecision)

\* the byte of a character
Byte(c) ==
  CASE c = "." -> 46 [] c = "-" -> 45
    [] c = "0" -> 48 [] c = "1" -> 49 [] c = "2" -> 50 [] c = "3" -> 51
    [] c = "4" -> 52 [] c = "5" -> 53 [] c = "6" -> 54 [] c = "7" -> 55
    [] c = "8" -> 56 [] c = "9" -> 57
    [] c = "A" -> 65 [] c = "B" -> 66 [] c = "C" -> 67
    [] c = "a" -> 97 [] c = "b" -> 98 [] c = "c" -> 99 [] c = "d" -> 100
    [] c = "e" -> 101 [] c = "f" -> 102 [] c = "h" -> 104 [] c = "i" -> 105
    [] c = "l" -> 108 [] c = "o" -> 111 [] c = "r" -> 114

RECURSIVE MulPow(_)
\* DigestMul to the power k, modulo DigestSpace
MulPow(k) == IF k = 0 THEN 1 ELSE (DigestMul * MulPow(k - 1)) % DigestSpace

RECURSIVE MixRange(_, _, _)
\* the abstract digest's state after data[lo..hi] from state 0: the fold
\* acc' = acc * DigestMul + byte (modulo DigestSpace) over the range, computed
\* by halves so that the evaluation stays shallow
MixRange(data, lo, hi) ==
  IF lo > hi THEN 0
  ELSE IF lo = hi THEN Byte(data[lo]) % DigestSpace
  ELSE (MixRange(data, lo, (lo + hi) \div 2) * MulPow(hi - ((lo + hi) \div 2))
          + MixRange(data, ((lo + hi) \div 2) + 1, hi)) % DigestSpace

\* the abstract digest's state after all the bytes of data, taken in order
Mix(data) == MixRange(data, 1, Len(data))

\* sha256.Sum256([]byte(data)), abstracted: DigestSize bytes; the first two are
\* 0 for one mixed value in four
Sum256(data) ==
  LET acc == Mix(data)
      lead == (acc % 4) * 85
  IN <<lead, lead, acc>>

RECURSIVE EncodeToString(_)
\* hex.EncodeToString: two lowercase hexadecimal digits per byte
EncodeToString(bytes) ==
  IF bytes = <<>> THEN <<>>
  ELSE <<HexDigits[(Head(bytes) \div 16) + 1], HexDigits[(Head(bytes) % 16) + 1]>>
         \o EncodeToString(Tail(bytes))

(***************************************************************************)
(* The pure functions of blockchain.go.                                    *)
(***************************************************************************)
RECURSIVE TxData(_)
\* the loop of calculateHash: sender, recipient and %f amount of every
\* transaction, in order, with nothing between them
TxData(txs) ==
  IF txs = <<>> THEN <<>>
  ELSE Head(txs).Sender \o Head(txs).Recipient \o FmtF(Head(txs).Amount)
         \o TxData(Tail(txs))

\* the string calculateHash hashes
HashInput(block) ==
  FmtD(block.Index) \o FmtD(block.Timestamp) \o FmtD(block.Nonce)
    \o block.PreviousHash \o FmtD(Len(block.Transactions))
    \o TxData(block.Transactions)

calculateHash(block) == EncodeToString(Sum256(HashInput(block)))

\* the string generateTransactionID hashes
TxIDInput(tx) == tx.Sender \o tx.Recipient \o FmtF(tx.Amount)

\* a variant of generateTransactionID that also hashes the mempool's length
\* (a sequence counter)
generateTransactionIDCounted(tx) ==
  EncodeToString(Sum256(TxIDInput(tx) \o FmtD(Len(Transactions))))

generateTransactionID(tx) == EncodeToString(Sum256(TxIDInput(tx)))

\* a Block value whose Hash is not set yet (Go's zero value "")
NewBlock(index, timestamp, txs, n, previousHash) ==
  [ Index |-> index, Timestamp |-> timestamp, Transactions |-> txs,
    Nonce |-> n, PreviousHash |-> previousHash, Hash |-> <<>> ]

\* s[:k]
Prefix(s, k) == SubSeq(s, 1, k)

\* a variant of isProofValid whose candidate block has the index of the last
\* block (line 120 without the + 1)
isProofValidSameIndex(lb, n, txs, ts) ==
  LET tempBlock == NewBlock(lb.Index, ts, txs, n, lb.Hash)
      guessHash == calculateHash(tempBlock)
  IN Prefix(guessHash, DifficultyLen) = DifficultyTarget

isProofValid(lb, n, txs, ts) ==
  LET tempBlock == NewBlock(lb.Index + 1, ts, txs, n, lb.Hash)
      guessHash == calculateHash(tempBlock)
  IN Prefix(guessHash, DifficultyLen) = DifficultyTarget

(***************************************************************************)
(* createBlockchain and createGenesisBlock.                                *)
(***************************************************************************)
\* a variant of createGenesisBlock that appends the block without computing its
\* hash (line 73 left out)
createGenesisBlockUnhashed(now) ==
  NewBlock(0, now, <<>>, GenesisNonce, GenesisPreviousHash)

createGenesisBlock(now) ==
  LET genesisBlock == NewBlock(0, now, <<>>, GenesisNonce, GenesisPreviousHash)
  IN [genesisBlock EXCEPT !.Hash = calculateHash(genesisBlock)]

\* the Blockchain createBlockchain returns when time.Now().Unix() is now
createBlockchain(now) ==
  [ Chain |-> Append(<<>>, createGenesisBlock(now)), Transactions |-> <<>> ]

NoBlock == NewBlock(0, 0, <<>>, 0, <<>>)

Init ==
  /\ \E now \in GenesisTimestamps :
       /\ Chain = createBlockchain(now).Chain
       /\ Transactions = createBlockchain(now).Transactions
  /\ pc = "idle"
  /\ lastBlock = NoBlock
  /\ candidateTimestamp = 0
  /\ nonce = 0
  /\ powTxs = <<>>
  /\ powSnapshot = <<>>
  /\ powReads = {}
  /\ evaluations = 0
  /\ results = {}
  /\ commitOf = "none"
  /\ txid = <<>>
  /\ op = "createBlockchain"
  /\ submitted = <<>>
  /\ returnedIds = {}
  /\ mainPc = "l36"

(***************************************************************************)
(* addTransaction.                                                         *)
(***************************************************************************)
\* the Transaction addTransaction builds: the fields, then the TXID
NewTransaction(sender, recipient, amount) ==
  LET tx == [ Sender |-> sender, Recipient |-> recipient, Amount |-> amount,
              TXID |-> <<>> ]
  IN [tx EXCEPT !.TXID = generateTransactionID(tx)]

\* a variant of addTransaction for a committed block whose Transactions slice
\* shares its array with the mempool (as after bc.Transactions =
\* bc.Transactions[:0] at line 90): the append also overwrites the tip's
\* transaction at the same position
addTransactionAliased(sender, recipient, amount) ==
  LET tx == NewTransaction(sender, recipient, amount)
      at == Len(Transactions) + 1
      tip == Chain[Len(Chain)]
  IN /\ Transactions' = Append(Transactions, tx)
     /\ txid' = tx.TXID
     /\ Chain' = IF at <= Len(tip.Transactions)
                 THEN [Chain EXCEPT ![Len(Chain)].Transactions[at] = tx]
                 ELSE Chain

\* the body of addTransaction; txid' is the value it returns
addTransaction(sender, recipient, amount) ==
  LET tx == NewTransaction(sender, recipient, amount)
  IN /\ Transactions' = Append(Transactions, tx)
     /\ txid' = tx.TXID
     /\ UNCHANGED Chain

\* main's progress over a call addTransaction(sender, recipient, amount)
MainAfterAddTransaction(sender, recipient, amount) ==
  IF mainPc = "l36" /\ <<sender, recipient, amount>> = <<Alice, Bob, 50 * AmountUnit>>
  THEN "l37"
  ELSE IF mainPc = "l37"
            /\ <<sender, recipient, amount>> = <<Bob, Charlie, 25 * AmountUnit>>
       THEN "l40"
       ELSE "off"

\* one call of addTransaction, with the history it leaves
AddTransactionCall(sender, recipient, amount) ==
  /\ Len(submitted) < MaxTxs
  /\ addTransaction(sender, recipient, amount)
  /\ op' = "addTransaction"
  /\ submitted' = Append(submitted, <<sender, recipient, amount>>)
  /\ returnedIds' = returnedIds \cup {<< <<sender, recipient, amount>>, txid' >>}
  /\ mainPc' = MainAfterAddTransaction(sender, recipient, amount)
  /\ commitOf' = "none"
  /\ UNCHANGED << pc, lastBlock, candidateTimestamp, nonce, powTxs, powSnapshot,
                  powReads, evaluations, results >>

\* a call of addTransaction by the one caller, between two other calls
AddTransaction ==
  /\ pc # "searching"
  /\ \E a \in TxArgs : AddTransactionCall(a[1], a[2], a[3])

\* a call of addTransaction by a second goroutine while proofOfWork is searching
AddTransactionConcurrently ==
  /\ pc = "searching"
  /\ \E a \in TxArgs : AddTransactionCall(a[1], a[2], a[3])

(***************************************************************************)
(* proofOfWork: its entry, then one step per evaluation of the loop        *)
(* condition.                                                              *)
(***************************************************************************)
\* a variant of proofOfWorkEnter that takes the mempool away when the search
\* starts
proofOfWorkEnterDrains(now) ==
  /\ lastBlock' = Chain[Len(Chain)]
  /\ candidateTimestamp' = now
  /\ nonce' = 0
  /\ pc' = "searching"
  /\ Transactions' = <<>>
  /\ UNCHANGED Chain

\* a variant of proofOfWorkEnter whose search starts at nonce 1
proofOfWorkEnterFromOne(now) ==
  /\ lastBlock' = Chain[Len(Chain)]
  /\ candidateTimestamp' = now
  /\ nonce' = 1
  /\ pc' = "searching"
  /\ UNCHANGED << Chain, Transactions >>

\* lines 135-138: lastBlock, candidateTimestamp and nonce are set
proofOfWorkEnter(now) ==
  /\ lastBlock' = Chain[Len(Chain)]
  /\ candidateTimestamp' = now
  /\ nonce' = 0
  /\ pc' = "searching"
  /\ UNCHANGED << Chain, Transactions >>

\* a call of proofOfWork up to its loop, with the history it leaves (all but
\* results)
ProofOfWorkCall ==
  /\ pc # "searching"
  /\ Len(Chain) < MaxChain
  /\ \E now \in Timestamps : proofOfWorkEnter(now)
  /\ powTxs' = Transactions
  /\ powSnapshot' = Transactions
  /\ powReads' = {}
  /\ evaluations' = 0
  /\ commitOf' = "none"
  /\ txid' = <<>>
  /\ op' = "proofOfWork"
  /\ mainPc' = IF mainPc = "l40" THEN "l40" ELSE "off"
  /\ UNCHANGED << submitted, returnedIds >>

ProofOfWorkEnter ==
  /\ ProofOfWorkCall
  /\ UNCHANGED results

\* the same call, what the search before it returned being recorded
ProofOfWorkEnterRecorded ==
  /\ ProofOfWorkCall
  /\ results' = IF pc = "returned"
                THEN results \cup {<<lastBlock, powSnapshot, candidateTimestamp, nonce>>}
                ELSE results

\* The values one evaluation of bc.Transactions in the loop condition may
\* yield.  With no concurrent addTransaction this is the mempool; an
\* unsynchronized concurrent append is a data race, and the read yields the
\* mempool as it is now or as this goroutine saw it before.
ReadTransactions == {Transactions, powTxs}

\* a variant of proofOfWorkStep that increments the nonce once more before
\* returning it
proofOfWorkStepPostIncrement(txs) ==
  /\ IF ~isProofValid(lastBlock, nonce, txs, candidateTimestamp)
     THEN /\ nonce < MaxNonce
          /\ nonce' = nonce + 1
          /\ pc' = "searching"
     ELSE /\ nonce' = nonce + 1
          /\ pc' = "returned"
  /\ UNCHANGED << Chain, Transactions, lastBlock, candidateTimestamp >>

\* a variant of proofOfWorkStep with an iteration cap: after the second
\* failed attempt it returns the nonce it has
proofOfWorkStepGivesUp(txs) ==
  /\ IF ~isProofValid(lastBlock, nonce, txs, candidateTimestamp) /\ nonce < 1
     THEN /\ nonce < MaxNonce
          /\ nonce' = nonce + 1
          /\ pc' = "searching"
     ELSE /\ nonce' = nonce
          /\ pc' = "returned"
  /\ UNCHANGED << Chain, Transactions, lastBlock, candidateTimestamp >>

\* a variant of proofOfWorkStep that takes the time anew for every attempt
proofOfWorkStepResamples(txs) ==
  /\ IF ~isProofValid(lastBlock, nonce, txs, candidateTimestamp)
     THEN /\ nonce < MaxNonce
          /\ nonce' = nonce + 1
          /\ pc' = "searching"
     ELSE /\ nonce' = nonce
          /\ pc' = "returned"
  /\ candidateTimestamp' \in Timestamps
  /\ UNCHANGED << Chain, Transactions, lastBlock >>

\* line 139 with the loop's body (line 140) or the return (line 143), txs being
\* the value read from bc.Transactions
proofOfWorkStep(txs) ==
  /\ IF ~isProofValid(lastBlock, nonce, txs, candidateTimestamp)
     THEN /\ nonce < MaxNonce
          /\ nonce' = nonce + 1
          /\ pc' = "searching"
     ELSE /\ nonce' = nonce
          /\ pc' = "returned"
  /\ UNCHANGED << Chain, Transactions, lastBlock, candidateTimestamp >>

ProofOfWorkStep ==
  /\ pc = "searching"
  /\ \E txs \in ReadTransactions :
       /\ proofOfWorkStep(txs)
       /\ powTxs' = txs
       /\ powReads' = powReads \cup {txs}
  /\ evaluations' = evaluations + 1
  /\ commitOf' = "none"
  /\ txid' = <<>>
  /\ op' = "proofOfWork"
  /\ mainPc' = IF pc' = "searching" THEN mainPc
               ELSE IF mainPc = "l40" THEN "l44" ELSE "off"
  /\ UNCHANGED << powSnapshot, submitted, returnedIds, results >>

(***************************************************************************)
(* addBlock.                                                               *)
(***************************************************************************)
\* a variant of addBlock that clears the mempool before it builds the block
\* (line 90 moved before line 81)
addBlockClearsFirst(n, timestamp, previousHash) ==
  LET newBlock == NewBlock(Len(Chain), timestamp, <<>>, n, previousHash)
  IN /\ Chain' = Append(Chain, [newBlock EXCEPT !.Hash = calculateHash(newBlock)])
     /\ Transactions' = <<>>

\* a variant of addBlock that stamps the block with a later time of its own
\* instead of the timestamp it is given
addBlockOwnTimestamp(n, timestamp, previousHash) ==
  LET newBlock == NewBlock(Len(Chain), timestamp + 1, Transactions, n, previousHash)
  IN /\ Chain' = Append(Chain, [newBlock EXCEPT !.Hash = calculateHash(newBlock)])
     /\ Transactions' = <<>>

\* a variant of addBlock that commits the mempool as the latest search read
\* it on entry, leaving out what was appended since
addBlockCommitsSnapshot(n, timestamp, previousHash) ==
  LET newBlock == NewBlock(Len(Chain), timestamp, powSnapshot, n, previousHash)
  IN /\ Chain' = Append(Chain, [newBlock EXCEPT !.Hash = calculateHash(newBlock)])
     /\ Transactions' = <<>>

\* a variant of addBlock that numbers the blocks from 1 (Index
\* len(bc.Chain) + 1)
addBlockNextIndex(n, timestamp, previousHash) ==
  LET newBlock == NewBlock(Len(Chain) + 1, timestamp, Transactions, n, previousHash)
  IN /\ Chain' = Append(Chain, [newBlock EXCEPT !.Hash = calculateHash(newBlock)])
     /\ Transactions' = <<>>

\* a variant of addBlock that leaves the mempool as it is (line 90 missing)
addBlockKeepsMempool(n, timestamp, previousHash) ==
  LET newBlock == NewBlock(Len(Chain), timestamp, Transactions, n, previousHash)
  IN /\ Chain' = Append(Chain, [newBlock EXCEPT !.Hash = calculateHash(newBlock)])
     /\ UNCHANGED Transactions

addBlock(n, timestamp, previousHash) ==
  LET newBlock == NewBlock(Len(Chain), timestamp, Transactions, n, previousHash)
  IN /\ Chain' = Append(Chain, [newBlock EXCEPT !.Hash = calculateHash(newBlock)])
     /\ Transactions' = <<>>

\* previousHash arguments explored: the tip's hash (as main passes) and the
\* genesis sentinel
PreviousHashArgs == {Chain[Len(Chain)].Hash, GenesisPreviousHash}

\* nonce arguments explored: the nonce proofOfWork returned (0 before any
\* search) and 0
NonceArgs == {nonce, 0}

\* timestamp arguments explored: the timestamp proofOfWork returned, any
\* timestamp before a search
TimestampArgs == IF pc = "returned" THEN {candidateTimestamp} ELSE Timestamps

\* whether addBlock(n, timestamp, previousHash) is the call main makes at line 45
IsMainAddBlock(n, timestamp, previousHash) ==
  /\ mainPc = "l44"
  /\ n = nonce
  /\ timestamp = candidateTimestamp
  /\ previousHash = Chain[Len(Chain)].Hash

\* what a call addBlock(n, timestamp, previousHash) commits (see commitOf)
CommitKind(n, timestamp, previousHash) ==
  IF /\ pc = "returned"
     /\ n = nonce
     /\ timestamp = candidateTimestamp
     /\ previousHash = Chain[Len(Chain)].Hash
  THEN IF Transactions = powSnapshot THEN "fresh" ELSE "stale"
  ELSE "other"

\* a call of addBlock, with the pair proofOfWork returned and the tip's hash
\* (main, lines 40-45) or with other arguments
AddBlock ==
  /\ pc # "searching"
  /\ Len(Chain) < MaxChain
  /\ \E n \in NonceArgs, timestamp \in TimestampArgs, previousHash \in PreviousHashArgs :
       /\ addBlock(n, timestamp, previousHash)
       /\ mainPc' = IF IsMainAddBlock(n, timestamp, previousHash) THEN "l47" ELSE "off"
       /\ commitOf' = CommitKind(n, timestamp, previousHash)
  /\ pc' = "idle"
  /\ lastBlock' = NoBlock
  /\ candidateTimestamp' = 0
  /\ nonce' = 0
  /\ powTxs' = <<>>
  /\ powSnapshot' = <<>>
  /\ powReads' = {}
  /\ evaluations' = 0
  /\ txid' = <<>>
  /\ results' = {}
  /\ op' = "addBlock"
  /\ UNCHANGED << submitted, returnedIds >>

(***************************************************************************)
(* The specifications: one caller making the calls one after the other     *)
(* (Spec), and the same with a second goroutine that submits transactions  *)
(* while proofOfWork is searching (SpecConc).                              *)
(***************************************************************************)
Next ==
  \/ AddTransaction
  \/ ProofOfWorkEnter
  \/ ProofOfWorkStep
  \/ AddBlock

Spec == Init /\ [][Next]_vars

NextConc ==
  \/ Next
  \/ AddTransactionConcurrently

SpecConc == Init /\ [][NextConc]_vars

(***************************************************************************)
(* The claims.                                                             *)
(***************************************************************************)
\* the last block of the chain
Tip == Chain[Len(Chain)]

\* C1: immediately after createBlockchain the chain has length 1, its only
\* block has Index 0, PreviousHash "0", Nonce 100 and no transactions, the
\* block's stored Hash is calculateHash of the block, and the mempool is empty.
C1_GenesisAfterCreate ==
  op = "createBlockchain" =>
    /\ Len(Chain) = 1
    /\ Chain[1].Index = 0
    /\ Chain[1].PreviousHash = <<"0">>
    /\ Chain[1].Nonce = 100
    /\ Chain[1].Transactions = <<>>
    /\ Chain[1].Hash = calculateHash(Chain[1])
    /\ Len(Chain[1].Hash) = 2 * DigestSize
    /\ Transactions = <<>>

\* the state createBlockchain leaves, the genesis block created at time 7
C1_Witness ==
  /\ op = "createBlockchain"
  /\ Len(Chain) = 1
  /\ Chain[1].Timestamp = 7
  /\ Chain[1].Hash # <<>>

\* C2: every call addBlock(nonce, timestamp, previousHash) leaves the mempool
\* empty and the chain exactly one block longer, and the transactions of the
\* appended block are, in order, the mempool as it was before the call.
C2_CommitTakesPool ==
  [][ op' = "addBlock" =>
        /\ Transactions' = <<>>
        /\ Len(Chain') = Len(Chain) + 1
        /\ Chain'[Len(Chain')].Transactions = Transactions ]_vars

\* addBlock has committed a mempool of two transactions
C2_Witness ==
  /\ op = "addBlock"
  /\ Len(Tip.Transactions) = 2
  /\ Transactions = <<>>

\* the candidate block isProofValid builds for the search that has returned
C3_Candidate ==
  NewBlock(Tip.Index + 1, candidateTimestamp, powSnapshot, nonce, Tip.Hash)

\* C3: whenever proofOfWork has returned (nonce, candidateTimestamp), the
\* block built from the tip of the chain the search started from, that nonce,
\* the mempool the search read and that timestamp has a hash whose first 4
\* characters are "0000", and isProofValid is true of these inputs.
C3_ProofValid ==
  pc = "returned" =>
    /\ lastBlock = Tip
    /\ powTxs = powSnapshot
    /\ SubSeq(calculateHash(C3_Candidate), 1, 4) = <<"0", "0", "0", "0">>
    /\ isProofValid(lastBlock, nonce, powTxs, candidateTimestamp)

\* proofOfWork has returned a nonce above 0 for a mempool that is not empty
C3_Witness ==
  /\ pc = "returned"
  /\ nonce > 0
  /\ powSnapshot # <<>>

\* C4: in every reachable state, whatever previousHash arguments addBlock was
\* called with, the PreviousHash of every block after the genesis block is
\* the Hash of the block before it.
C4_LinkedChain ==
  \A i \in 2..Len(Chain) : Chain[i].PreviousHash = Chain[i - 1].Hash

\* C5: in every reachable state the stored Hash of every block after the
\* genesis block starts with "0000": addBlock never appends a block whose hash
\* misses the difficulty target.
C5_EveryBlockMeetsTarget ==
  \A i \in 2..Len(Chain) : SubSeq(Chain[i].Hash, 1, 4) = <<"0", "0", "0", "0">>

\* C6: the chain is append-only: it is never empty, no step shortens it, and
\* every step leaves every block already in it at its position with all its
\* fields, transactions included, unchanged.
C6_AppendOnly ==
  /\ [](Len(Chain) >= 1)
  /\ [][ /\ Len(Chain') >= Len(Chain)
         /\ \A i \in 1..Len(Chain) : Chain'[i] = Chain[i] ]_vars

\* addTransaction has run after a block with transactions was committed, and
\* another block was committed after that one
C6_Witness ==
  /\ op = "addTransaction"
  /\ Len(Chain) = 3
  /\ Chain[2].Transactions # <<>>
  /\ Transactions # <<>>

\* C7: every loop iteration of one proofOfWork call evaluates isProofValid
\* with the tip and the mempool read when the call was entered, also when
\* addTransaction runs between two iterations.
C7_SearchReadsPoolOnce ==
  pc \in {"searching", "returned"} =>
    /\ lastBlock = Tip
    /\ Cardinality(powReads) <= 1

\* the two transactions main submits, as addTransaction stores them
MainTransactions ==
  << NewTransaction(Alice, Bob, 50 * AmountUnit),
     NewTransaction(Bob, Charlie, 25 * AmountUnit) >>

\* C8: main's sequence createBlockchain, addTransaction(Alice, Bob, 50),
\* addTransaction(Bob, Charlie, 25), proofOfWork, addBlock(returned nonce,
\* returned timestamp, hash of block 0) ends with a chain of 2 blocks, the
\* second with Index 1, PreviousHash equal to the genesis Hash, a Hash that
\* starts with "0000" and the two transactions in submission order, and with
\* an empty mempool.
C8_MainScenario ==
  mainPc = "l47" =>
    /\ Len(Chain) = 2
    /\ Chain[2].Index = 1
    /\ Chain[2].PreviousHash = Chain[1].Hash
    /\ SubSeq(Chain[2].Hash, 1, 4) = <<"0", "0", "0", "0">>
    /\ Len(Chain[2].Transactions) = 2
    /\ Chain[2].Transactions[1].Sender = Alice
    /\ Chain[2].Transactions[1].Recipient = Bob
    /\ Chain[2].Transactions[1].Amount = 50 * AmountUnit
    /\ Chain[2].Transactions[2].Sender = Bob
    /\ Chain[2].Transactions[2].Recipient = Charlie
    /\ Chain[2].Transactions[2].Amount = 25 * AmountUnit
    /\ Transactions = <<>>

\* main has reached line 47 after a search that had to try more than one nonce
C8_Witness ==
  /\ mainPc = "l47"
  /\ op = "addBlock"
  /\ Chain[2].Nonce > 0

\* C9: the mempool changes only in addTransaction, which adds exactly one
\* transaction at its end and leaves the chain unchanged, and in addBlock,
\* which empties it; every step of proofOfWork (isProofValid included) leaves
\* the chain and the mempool unchanged.
C9_PoolFrame ==
  [][ /\ Transactions' # Transactions => op' \in {"addTransaction", "addBlock"}
      /\ op' = "addTransaction" =>
            /\ Len(Transactions') = Len(Transactions) + 1
            /\ SubSeq(Transactions', 1, Len(Transactions)) = Transactions
            /\ Chain' = Chain
      /\ op' = "addBlock" => Transactions' = <<>>
      /\ op' = "proofOfWork" => (Chain' = Chain /\ Transactions' = Transactions)
    ]_vars

\* proofOfWork has run to its return over a mempool of two transactions
C9_Witness ==
  /\ op = "proofOfWork"
  /\ pc = "returned"
  /\ Len(Transactions) = 2
  /\ nonce > 0

\* C10: addTransaction(sender, recipient, amount) always succeeds, appends
\* the new transaction after the mempool's elements, which it leaves as they
\* were, and returns the id stored on the appended transaction; two calls with
\* the same sender, recipient and amount return the same id whatever the
\* chain and the mempool are.
C10_AddTransaction ==
  /\ [](\A p, q \in returnedIds : p[1] = q[1] => p[2] = q[2])
  /\ [][ op' = "addTransaction" =>
           LET args == submitted'[Len(submitted')]
               last == Transactions'[Len(Transactions')]
           IN /\ Len(Transactions') = Len(Transactions) + 1
              /\ SubSeq(Transactions', 1, Len(Transactions)) = Transactions
              /\ <<last.Sender, last.Recipient, last.Amount>> = args
              /\ last.TXID = txid'
              /\ Len(txid') = 2 * DigestSize ]_vars

\* the same sender, recipient and amount were submitted twice, the second
\* time to a mempool that was not empty, and both calls returned the same id
C10_Witness ==
  /\ op = "addTransaction"
  /\ Len(Transactions) = 2
  /\ Len(submitted) = 2
  /\ submitted[1] = submitted[2]
  /\ Transactions[1].TXID = txid
  /\ Transactions[2].TXID = txid

\* ---- C11: tamper evidence ----

\* the values a tampered field is changed to: numbers of one and of several
\* digits, the names, a hash, and amounts that differ from a by less and by
\* more than the six decimals "%f" prints
TamperInts == {0, 1, 7, 10, 17, 100}
TamperNames == {Alice, Bob, Charlie}
TamperHashes == {GenesisPreviousHash, Chain[1].Hash}
TamperAmounts(a) == {a + 1, a + 10, a + AmountUnit}

TamperTransaction(b, k) ==
  {[b EXCEPT !.Transactions[k].Sender = v] :
     v \in TamperNames \ {b.Transactions[k].Sender}}
  \cup
  {[b EXCEPT !.Transactions[k].Recipient = v] :
     v \in TamperNames \ {b.Transactions[k].Recipient}}
  \cup
  {[b EXCEPT !.Transactions[k].Amount = v] :
     v \in TamperAmounts(b.Transactions[k].Amount)}

\* the blocks that differ from b in one field, the others fixed
SingleFieldChanges(b) ==
  {[b EXCEPT !.Index = v] : v \in TamperInts \ {b.Index}}
  \cup {[b EXCEPT !.Timestamp = v] : v \in TamperInts \ {b.Timestamp}}
  \cup {[b EXCEPT !.Nonce = v] : v \in TamperInts \ {b.Nonce}}
  \cup {[b EXCEPT !.PreviousHash = v] : v \in TamperHashes \ {b.PreviousHash}}
  \cup UNION {TamperTransaction(b, k) : k \in 1..Len(b.Transactions)}

\* C11: for every committed block with a successor that stores its hash,
\* changing any single field of the block (index, timestamp, nonce,
\* previous hash, or the sender, recipient or amount of one of its
\* transactions) changes the string calculateHash serializes, so that the
\* recomputed hash (the digest being collision-free) is no longer the
\* successor's PreviousHash.
C11_TamperEvident ==
  \A i \in 1..(Len(Chain) - 1) :
    Chain[i + 1].PreviousHash = calculateHash(Chain[i]) =>
      \A t \in SingleFieldChanges(Chain[i]) :
        HashInput(t) # HashInput(Chain[i])

\* ---- C12: the uniqueness of transaction IDs ----

\* the arguments of addTransaction: names that join to the same string
\* ("Alice"+"Bob" and "Al"+"iceBob"), names that do not, and amounts that
\* differ below and above the six decimals "%f" prints
IdSenders == {Alice, <<"A", "l">>, Bob}
IdRecipients == {Bob, <<"i", "c", "e", "B", "o", "b">>, Charlie}
IdAmounts == {50 * AmountUnit, 50 * AmountUnit + 1, 25 * AmountUnit}
IdArgs == IdSenders \X IdRecipients \X IdAmounts

\* a call of addTransaction with any of these arguments
AddTransactionAny ==
  /\ pc # "searching"
  /\ \E a \in IdArgs : AddTransactionCall(a[1], a[2], a[3])

NextIds == AddTransactionAny

\* a caller that only submits transactions
SpecIds == Init /\ [][NextIds]_vars

\* C12: two transactions of the mempool that differ in the sender, the
\* recipient or the amount have different strings hashed into their IDs (so
\* that, the digest being collision-free, addTransaction returned different
\* IDs for them).
C12_UniqueIds ==
  \A i, j \in 1..Len(Transactions) :
    LET a == Transactions[i]
        b == Transactions[j]
    IN <<a.Sender, a.Recipient, a.Amount>> # <<b.Sender, b.Recipient, b.Amount>>
         => TxIDInput(a) # TxIDInput(b)

\* ---- C13: the search returns the least valid nonce ----

\* C13: proofOfWork tries the nonces 0, 1, 2, ... in order, one per
\* evaluation of isProofValid: while it searches, the nonce is the number of
\* evaluations made and every smaller nonce has failed; when it has returned,
\* the returned nonce is valid for the tip, mempool and timestamp of the
\* search and every smaller nonce is not, so it is the least valid one.
C13_LeastNonce ==
  /\ pc = "searching" =>
       /\ nonce = evaluations
       /\ \A m \in 0..(nonce - 1) :
            ~isProofValid(lastBlock, m, powSnapshot, candidateTimestamp)
  /\ pc = "returned" =>
       /\ nonce + 1 = evaluations
       /\ isProofValid(lastBlock, nonce, powSnapshot, candidateTimestamp)
       /\ \A m \in 0..(nonce - 1) :
            ~isProofValid(lastBlock, m, powSnapshot, candidateTimestamp)

\* a search has returned nonce 2 after the nonces 0 and 1 failed
C13_Witness ==
  /\ pc = "returned"
  /\ nonce = 2
  /\ evaluations = 3
  /\ ~isProofValid(lastBlock, 0, powSnapshot, candidateTimestamp)
  /\ ~isProofValid(lastBlock, 1, powSnapshot, candidateTimestamp)

\* ---- C14: the committed block is the validated candidate ----

\* C14: when addBlock is called with the pair proofOfWork returned and the
\* tip's hash, no addTransaction and no other addBlock having been called
\* since the search returned, the block it commits has the fields of the
\* candidate the search validated (index = tip's index + 1 = length of the
\* chain, the same timestamp, nonce, previous hash and transactions), so its
\* stored hash is the candidate's hash and starts with "0000".
C14_CommitMatchesCandidate ==
  [][(op' = "addBlock" /\ commitOf' = "fresh") =>
       LET b == Chain'[Len(Chain')]
       IN /\ Len(Chain') = Len(Chain) + 1
          /\ b.Index = Tip.Index + 1
          /\ b.Index = Len(Chain)
          /\ b.Timestamp = candidateTimestamp
          /\ b.Nonce = nonce
          /\ b.PreviousHash = Tip.Hash
          /\ b.Transactions = powSnapshot
          /\ b.Hash = calculateHash(C3_Candidate)
          /\ SubSeq(b.Hash, 1, DifficultyLen) = DifficultyTarget]_vars

\* such a block has been committed, with a nonce above 0 and a transaction
C14_Witness ==
  /\ op = "addBlock"
  /\ commitOf = "fresh"
  /\ Tip.Nonce > 0
  /\ Tip.Transactions # <<>>
  /\ SubSeq(Tip.Hash, 1, DifficultyLen) = DifficultyTarget

\* ---- C15: the stale-snapshot hazard ----

\* C15: when addTransaction was called after proofOfWork returned and addBlock
\* is then called with the returned pair and the tip's hash, addBlock commits
\* all the same: the chain grows by a block that holds the whole mempool, the
\* transactions appended after the search included, under the nonce that was
\* found for the shorter mempool; its hash is the hash of the block as
\* stored, made from another string than the candidate isProofValid examined.
C15_StaleCommit ==
  [][(op' = "addBlock" /\ commitOf' = "stale") =>
       LET b == Chain'[Len(Chain')]
       IN /\ Len(Chain') = Len(Chain) + 1
          /\ b.Transactions = Transactions
          /\ Len(b.Transactions) > Len(powSnapshot)
          /\ SubSeq(b.Transactions, 1, Len(powSnapshot)) = powSnapshot
          /\ b.Nonce = nonce
          /\ b.Timestamp = candidateTimestamp
          /\ b.Hash = calculateHash([b EXCEPT !.Hash = <<>>])
          /\ HashInput(b) # HashInput(C3_Candidate)]_vars

\* a block has been committed whose transactions are not the ones its nonce
\* was found for and whose hash does not start with "0000"
C15_Witness ==
  /\ op = "addBlock"
  /\ commitOf = "stale"
  /\ Tip.Transactions # <<>>
  /\ SubSeq(Tip.Hash, 1, DifficultyLen) # DifficultyTarget

\* ---- C16: the index of a block is its position ----

\* C16: in every reachable state the block at position i of the chain
\* (counted from 0) has Index i, so the Index of the tip plus 1 is the length
\* of the chain: the index isProofValid gives its candidate (lastBlock.Index
\* + 1) is the index addBlock gives the next block (len(bc.Chain)).
C16_IndexIsPosition ==
  /\ \A i \in 1..Len(Chain) : Chain[i].Index = i - 1
  /\ Tip.Index + 1 = Len(Chain)
  /\ pc \in {"searching", "returned"} => lastBlock.Index + 1 = Len(Chain)

\* a block has been committed after the genesis block and a search on top of
\* it has returned
C16_Witness ==
  /\ Len(Chain) = 2
  /\ Chain[2].Index = 1
  /\ pc = "returned"
  /\ lastBlock.Index = 1

\* ---- C17: transaction conservation ----

\* the transactions of the first k blocks of the chain, in chain order
RECURSIVE ChainTransactions(_)
ChainTransactions(k) ==
  IF k = 0 THEN <<>> ELSE ChainTransactions(k - 1) \o Chain[k].Transactions

\* the arguments addTransaction was called with to make each of txs
SubmittedAs(txs) ==
  [i \in 1..Len(txs) |-> <<txs[i].Sender, txs[i].Recipient, txs[i].Amount>>]

\* C17: in every reachable state the transactions of the blocks of the
\* chain, in chain order, followed by the mempool are the transactions
\* submitted with addTransaction, each once and in the order of submission,
\* each with the ID generateTransactionID gives it.
C17_Conservation ==
  LET all == ChainTransactions(Len(Chain)) \o Transactions
  IN /\ SubmittedAs(all) = submitted
     /\ \A i \in 1..Len(all) : all[i].TXID = generateTransactionID(all[i])

\* one submitted transaction is in a committed block and a later one in the
\* mempool
C17_Witness ==
  /\ Len(Chain) >= 2
  /\ Chain[2].Transactions # <<>>
  /\ Transactions # <<>>
  /\ Len(submitted) = 2

\* ---- C18: termination of the search ----

\* an evaluation of the loop condition below the last nonce explored: among
\* the steps of Next these are the steps of ProofOfWorkStep taken at a nonce
\* below MaxNonce, where the loop can always go on (to the next nonce or to
\* the return)
ProofOfWorkProgress ==
  /\ pc = "searching"
  /\ nonce < MaxNonce
  /\ evaluations' = evaluations + 1

\* a call of addBlock with the pair proofOfWork returned and the tip's hash,
\* as main makes it (lines 40-45)
AddBlockOfSearch ==
  /\ pc = "returned"
  /\ AddBlock
  /\ commitOf' \in {"fresh", "stale"}

\* a caller that commits only what a search returned
NextMiner ==
  \/ AddTransaction
  \/ ProofOfWorkEnter
  \/ ProofOfWorkStep
  \/ AddBlockOfSearch

\* the caller's goroutine runs the loop of proofOfWork with nothing to wait
\* for: an evaluation that can be made is eventually made
SpecFair == Init /\ [][NextMiner]_vars /\ WF_evaluations(ProofOfWorkProgress)

\* whether n is the least nonce isProofValid accepts for the search under way
IsLeastValid(n) ==
  /\ isProofValid(lastBlock, n, powSnapshot, candidateTimestamp)
  /\ \A m \in 0..(n - 1) :
       ~isProofValid(lastBlock, m, powSnapshot, candidateTimestamp)

\* C18: a search for which some nonce n (below the last nonce explored) is valid
\* eventually returns, with the least such n and after n + 1 evaluations of
\* isProofValid; and the loop has no other way out (no iteration cap, timeout
\* or cancellation): a search stops searching only by returning a nonce that
\* isProofValid accepted, so a search for which no nonce is valid never
\* returns.
C18_Termination ==
  /\ (pc = "searching" /\ \E n \in 0..(MaxNonce - 1) : IsLeastValid(n))
       ~> (pc = "returned")
  /\ [](pc = "returned" => IsLeastValid(nonce) /\ evaluations = nonce + 1)
  /\ [][pc = "searching" /\ pc' # "searching" =>
          /\ pc' = "returned"
          /\ isProofValid(lastBlock', nonce', powTxs', candidateTimestamp')
          /\ evaluations' = evaluations + 1]_vars
  /\ [][pc = "searching" /\ pc' = "searching" =>
          /\ ~isProofValid(lastBlock, nonce, powTxs', candidateTimestamp)
          /\ nonce' = nonce + 1]_vars

\* a search has returned at its second evaluation
C18_Witness ==
  /\ pc = "returned"
  /\ evaluations = 2
  /\ IsLeastValid(1)
  /\ nonce = 1

\* ---- C19: the search is a function of tip, mempool and timestamp ----

\* a call of addBlock with what a search returned, nothing having been
\* submitted since
AddBlockFresh ==
  /\ AddBlockOfSearch
  /\ commitOf' = "fresh"

\* a caller that searches again and again, between submissions and commits of
\* what a search returned
NextSearch ==
  \/ AddTransaction
  \/ ProofOfWorkEnterRecorded
  \/ ProofOfWorkStep
  \/ AddBlockFresh

SpecSearch == Init /\ [][NextSearch]_vars

\* the earlier searches that started from the tip, mempool and timestamp of
\* the latest one
SameSearches ==
  {r \in results :
     r[1] = lastBlock /\ r[2] = powSnapshot /\ r[3] = candidateTimestamp}

============================================================================
